---- MODULE Spec2Model ----
(***************************************************************************)
(* rastertopm110: the CUPS raster filter for Phomemo M110/M220 printers.   *)
(* The model follows cups/filter/rastertopm110.c: main()'s control flow    *)
(* is the program counter pc, the three malloc'ed buffers and stdout are   *)
(* byte sequences, and the raster stream is the sequence `input` of pages. *)
(***************************************************************************)
EXTENDS Integers, Sequences, FiniteSets, TLC

VARIABLES
    pc,          \* position in main()
    run,         \* 1 for the first run of the filter, 2 for the re-run on the same input
    argc,        \* main's argc
    ras,         \* the raster stream handle: "none", "open", "closed"
    input,       \* the raster stream: a sequence of pages
    page,        \* main's page counter = number of headers read
    header,      \* main's header (cups_page_header2_t), the fields the filter uses
    y,           \* main's row index
    width_bytes, \* main's width_bytes
    line_in,     \* the input scratch buffer: NULL, or its size and the bytes written to it
    line_out,    \* the output scratch buffer
    page_data,   \* the page bitmap buffer
    out,         \* the bytes accepted by stdout so far
    flushed,     \* how many bytes of out have been flushed
    log,         \* one entry per frame sent: page, kind, byte range in out, ok
    ferr,        \* stdout's error indicator
    faults,      \* number of fwrite failures so far
    envfail,     \* what the environment refused: "none", "open", "raster", "alloc"
    exit_code,   \* main's return value, -1 while running
    prevOut      \* the output of the first run, in the second run

vars == <<pc, run, argc, ras, input, page, header, y, width_bytes, line_in,
          line_out, page_data, out, flushed, log, ferr, faults, envfail,
          exit_code, prevOut>>

(***************************************************************************)
(* Program constants                                                       *)
(***************************************************************************)
ESC == 27
GS == 29
Threshold == 128
DefaultMediaType == 10
Speed == 5
Density == 10
MinArgc == 6
MaxArgc == 7

(***************************************************************************)
(* Bounds of the model                                                     *)
(***************************************************************************)
MaxPages == 2        \* pages in the raster stream
MaxHeight == 2       \* rows of a page
MaxWidth == 9        \* pixels per row of an ordinary page
MaxFaults == 1       \* fwrite failures in one execution
MaxRowLen == 9       \* row length when the thresholder is checked alone
OverWidth == 524281  \* a width whose stride is 65536, one above the 16-bit limit


(***************************************************************************)
(* C arithmetic.  Every width, height and size of the model is far below   *)
(* 2^31, so int and unsigned arithmetic is exact on them.                  *)
(***************************************************************************)
Pow2(n) == 2 ^ n

RECURSIVE BitOr(_, _)
BitOr(a, b) ==
    IF a = 0 THEN b
    ELSE IF b = 0 THEN a
    ELSE (IF a % 2 = 1 \/ b % 2 = 1 THEN 1 ELSE 0) + 2 * BitOr(a \div 2, b \div 2)

LowByte(n) == n % 256

HighByte(n) == (n \div 256) % 256

Min(a, b) == IF a < b THEN a ELSE b

\* The bytes b[1], ..., b[n] as a sequence.
Bytes(b) == b \o << >>

RECURSIVE Flatten(_)
Flatten(chunks) ==
    IF chunks = << >> THEN << >> ELSE Head(chunks) \o Flatten(Tail(chunks))

(***************************************************************************)
(* The raster stream.  A page is its header, the number of pixel rows the  *)
(* stream really holds for it (fewer than cupsHeight when the stream is    *)
(* cut short).  The pixel bytes of the stream are a fixed picture: the      *)
(* sample at a place depends on the page's number, the row and the column. *)
(***************************************************************************)
SampleValues == <<0, 127, 128, 255>>

\* The sample at row yy, byte xx of page number n of the stream.
Sample(n, yy, xx) == SampleValues[((n + yy + xx) % 4) + 1]

\* A job has one media type and one pixel format; its pages differ in size.
MediaTypes == {0, 11, 256}

\* The pixel formats: 8 bits per pixel, 8 bits per pixel with a byte of padding
\* after each row, and 1 bit per pixel.
Formats == {"gray8", "gray8pad", "mono1"}

\* cupsBytesPerLine of a row of w pixels
BytesPerLine(fmt, w) ==
    CASE fmt = "gray8" -> w
      [] fmt = "gray8pad" -> w + 1
      [] fmt = "mono1" -> (w + 7) \div 8

Header(w, h, bpl, mt) ==
    [cupsWidth |-> w, cupsHeight |-> h, cupsBytesPerLine |-> bpl, cupsMediaType |-> mt]

NoHeader == Header(0, 0, 0, 0)

Widths == {0, MaxWidth}

\* The pages of a job: rows is the number of rows the stream holds for the page.
PageSet(mt, fmt) ==
    { [hdr |-> Header(w, h, BytesPerLine(fmt, w), mt), rows |-> r] :
        w \in Widths, h \in 0..MaxHeight, r \in 0..MaxHeight }

\* A header that describes no pixel.
NoPixels(h) == h.cupsWidth = 0 \/ h.cupsHeight = 0

\* A page none of whose rows is missing.
Complete(p) == p.rows = p.hdr.cupsHeight

\* A page the stream can hold: a page with no pixels is never cut short.
WellFormed(p) == p.rows <= p.hdr.cupsHeight /\ (NoPixels(p.hdr) => Complete(p))

\* The streams of exactly n complete pages out of the set pages.
RECURSIVE CompleteStreams(_, _)
CompleteStreams(pages, n) ==
    IF n = 0 THEN { << >> }
    ELSE { Append(s, p) : s \in CompleteStreams(pages, n - 1),
                          p \in { q \in pages : WellFormed(q) /\ Complete(q) } }

\* A stream holds up to MaxPages pages; only its last page can be cut short,
\* since the stream ends where the cut is.
Streams(pages) ==
    { << >> } \cup
    UNION { { Append(s, p) : s \in CompleteStreams(pages, n),
                             p \in { q \in pages : WellFormed(q) } } :
            n \in 0..(MaxPages - 1) }

Inputs == UNION { Streams(PageSet(mt, fmt)) : mt \in MediaTypes, fmt \in Formats }

\* A page wider than the printer's 16-bit stride field can describe.
OverPages == { [hdr |-> Header(OverWidth, 1, OverWidth, 11), rows |-> r] : r \in 0..1 }

\* The streams that hold the over-wide page, and the streams of one ordinary job.
OverInputs == { <<p>> : p \in OverPages } \cup Streams(PageSet(11, "gray8"))

Argcs == {MinArgc - 1, MinArgc, MaxArgc, MaxArgc + 1}

\* What memory the program never wrote may hold.
HeapBytes == {0, 255}

(***************************************************************************)
(* stdio and malloc                                                        *)
(***************************************************************************)
\* A buffer is its size and mem, the bytes written to it so far, by their
\* place (from 1): a byte nobody wrote yet has no entry in mem.
NULL == [size |-> -1, mem |-> << >>]

\* malloc(n): n bytes nobody initialised.
Malloc(n) == [size |-> n, mem |-> << >>]

\* The n bytes of memory at the pointer buf.  A byte nobody wrote, inside the
\* buffer or past its end, holds whatever the heap held there, g.
Load(buf, n, g) ==
    Bytes([i \in 1..n |-> IF i \in DOMAIN buf.mem THEN buf.mem[i] ELSE g])

\* The buffer buf after bytes were written to it from offset at on.
Store(buf, at, bytes) ==
    [buf EXCEPT !.mem =
        IF DOMAIN buf.mem = 1..Cardinality(DOMAIN buf.mem) /\ at <= Len(buf.mem)
        THEN SubSeq(buf.mem, 1, at) \o bytes
                 \o SubSeq(buf.mem, at + Len(bytes) + 1, Len(buf.mem))
        ELSE [i \in (DOMAIN buf.mem) \cup ((at + 1)..(at + Len(bytes))) |->
                 IF i > at /\ i <= at + Len(bytes) THEN bytes[i - at]
                 ELSE buf.mem[i]]]

\* The fwrite calls of one frame, of which call number f fails (0: none does):
\* a failed fwrite adds nothing to the stream and the calls after it go on.
Fwrites(chunks, f) ==
    Flatten([i \in 1..Len(chunks) |-> IF i = f THEN << >> ELSE chunks[i]])

(***************************************************************************)
(* send_header, send_raster, send_footer: the fwrite calls each makes      *)
(***************************************************************************)
send_header(media_type) ==
    << <<ESC, 78, 13, Speed>>,
       <<ESC, 78, 4, Density>>,
       <<31, 17, media_type % 256>> >>

send_raster(data, width, height) ==
    LET wb == (width + 7) \div 8
    IN  << <<GS, 118, 48, 0>>,
           <<LowByte(wb), HighByte(wb)>>,
           <<LowByte(height), HighByte(height)>>,
           SubSeq(data, 1, wb * height) >>

send_footer ==
    << <<31, 240, 5, 0>>,
       <<31, 240, 3, 0>> >>

(***************************************************************************)
(* convert_line_to_1bit.  src is the memory at the src pointer, dst the    *)
(* buffer at dst.  The loop over x is carried out byte by byte of dst:     *)
(* PackByte runs the iterations x = first .. last that fall in one byte,   *)
(* starting from the 0 that memset left there.                             *)
(***************************************************************************)
\* PackByte with the comparison src[x] <= 128.
RECURSIVE PackByteInclusive(_, _, _, _)
PackByteInclusive(src, acc, x, last) ==
    IF x > last THEN acc
    ELSE PackByteInclusive(src,
                  IF src[x + 1] <= Threshold THEN BitOr(acc, Pow2(7 - (x % 8))) ELSE acc,
                  x + 1, last)

RECURSIVE PackByte(_, _, _, _)
PackByte(src, acc, x, last) ==
    IF x > last THEN acc
    ELSE PackByte(src,
                  IF src[x + 1] < Threshold THEN BitOr(acc, Pow2(7 - (x % 8))) ELSE acc,
                  x + 1, last)

convert_line_to_1bit(src, dst, width) ==
    LET wb == (width + 7) \div 8
    IN  Store(dst, 0,
              Bytes([i \in 1..wb |->
                        PackByte(src, 0, 8 * (i - 1), Min(8 * (i - 1) + 7, width - 1))]))

\* memcpy(dst + at, src, n) from a buffer src whose first n bytes are written
Memcpy(dst, at, src, n) == Store(dst, at, SubSeq(src.mem, 1, n))

(***************************************************************************)
(* main                                                                    *)
(***************************************************************************)
InitWith(argcs, inputs) ==
    /\ pc = "start"
    /\ run = 1
    /\ argc \in argcs
    /\ ras = "none"
    /\ input \in inputs
    /\ page = 0
    /\ header = NoHeader
    /\ y = 0
    /\ width_bytes = 0
    /\ line_in = NULL
    /\ line_out = NULL
    /\ page_data = NULL
    /\ out = << >>
    /\ flushed = 0
    /\ log = << >>
    /\ ferr = FALSE
    /\ faults = 0
    /\ envfail = "none"
    /\ exit_code = -1
    /\ prevOut = << >>

Init == InitWith(Argcs, Inputs)

\* return n from main
Return(n) ==
    /\ pc' = "exit"
    /\ exit_code' = n

\* BadArgc without the upper limit.
BadArgcLowOnly(n) == n < MinArgc

\* if (argc < 6 || argc > 7) return 1;
BadArgc(n) == n < MinArgc \/ n > MaxArgc

CheckArgs ==
    /\ pc = "start"
    /\ IF BadArgc(argc) THEN Return(1) ELSE pc' = "open" /\ exit_code' = exit_code
    /\ UNCHANGED <<run, argc, ras, input, page, header, y, width_bytes, line_in,
                   line_out, page_data, out, flushed, log, ferr, faults,
                   envfail, prevOut>>

\* open(argv[6]) fails
OpenFileFails ==
    /\ pc = "open"
    /\ argc = MaxArgc
    /\ envfail' = "open"
    /\ Return(1)
    /\ UNCHANGED <<run, argc, ras, input, page, header, y, width_bytes, line_in,
                   line_out, page_data, out, flushed, log, ferr, faults, prevOut>>

\* cupsRasterOpen returns NULL
RasterOpenFails ==
    /\ pc = "open"
    /\ envfail' = "raster"
    /\ Return(1)
    /\ UNCHANGED <<run, argc, ras, input, page, header, y, width_bytes, line_in,
                   line_out, page_data, out, flushed, log, ferr, faults, prevOut>>

RasterOpen ==
    /\ pc = "open"
    /\ ras' = "open"
    /\ pc' = "read_header"
    /\ UNCHANGED <<run, argc, input, page, header, y, width_bytes, line_in,
                   line_out, page_data, out, flushed, log, ferr, faults,
                   envfail, exit_code, prevOut>>

\* cupsRasterReadHeader2 returns a header; page++
ReadHeader ==
    /\ pc = "read_header"
    /\ page < Len(input)
    /\ header' = input[page + 1].hdr
    /\ page' = page + 1
    /\ pc' = "page"
    /\ UNCHANGED <<run, argc, ras, input, y, width_bytes, line_in, line_out,
                   page_data, out, flushed, log, ferr, faults, envfail,
                   exit_code, prevOut>>

\* cupsRasterReadHeader2 returns 0; cupsRasterClose; return 0
EndOfStream ==
    /\ pc = "read_header"
    /\ page >= Len(input)
    /\ ras' = "closed"
    /\ Return(0)
    /\ UNCHANGED <<run, argc, input, page, header, y, width_bytes, line_in,
                   line_out, page_data, out, flushed, log, ferr, faults,
                   envfail, prevOut>>

\* EmptyPage without the test of the height.
EmptyPageWidthOnly(h) == h.cupsWidth = 0

\* if (header.cupsWidth == 0 || header.cupsHeight == 0)
EmptyPage(h) == h.cupsWidth = 0 \/ h.cupsHeight = 0

\* what the page loop does with a page for which EmptyPage holds
AfterEmptyPage == "read_header"

SkipEmpty ==
    /\ pc = "page"
    /\ EmptyPage(header)
    /\ pc' = AfterEmptyPage
    /\ UNCHANGED <<run, argc, ras, input, page, header, y, width_bytes, line_in,
                   line_out, page_data, out, flushed, log, ferr, faults,
                   envfail, exit_code, prevOut>>

\* The three mallocs, of which number failing returns NULL (0: none does).
Allocate(failing) ==
    /\ width_bytes' = (header.cupsWidth + 7) \div 8
    /\ line_in' = IF failing = 1 THEN NULL ELSE Malloc(header.cupsBytesPerLine)
    /\ line_out' = IF failing = 2 THEN NULL ELSE Malloc(width_bytes')
    /\ page_data' = IF failing = 3 THEN NULL
                    ELSE Malloc(width_bytes' * header.cupsHeight)

AllocateBuffers ==
    /\ pc = "page"
    /\ ~EmptyPage(header)
    /\ Allocate(0)
    /\ y' = 0
    /\ pc' = "for"
    /\ UNCHANGED <<run, argc, ras, input, page, header, out, flushed, log, ferr,
                   faults, envfail, exit_code, prevOut>>

AllocateFails ==
    /\ pc = "page"
    /\ ~EmptyPage(header)
    /\ \E failing \in 1..3 : Allocate(failing)
    /\ envfail' = "alloc"
    /\ Return(1)
    /\ UNCHANGED <<run, argc, ras, input, page, header, y, out, flushed, log,
                   ferr, faults, prevOut>>

\* cupsRasterReadPixels fills line_in with the next row of the page
ReadRow ==
    /\ pc = "for"
    /\ y < header.cupsHeight
    /\ y < input[page].rows
    /\ line_in' = Store(line_in, 0,
                      Bytes([i \in 1..header.cupsBytesPerLine |-> Sample(page, y, i - 1)]))
    /\ pc' = "convert"
    /\ UNCHANGED <<run, argc, ras, input, page, header, y, width_bytes, line_out,
                   page_data, out, flushed, log, ferr, faults, envfail,
                   exit_code, prevOut>>

\* cupsRasterReadPixels returns 0: break
ShortRead ==
    /\ pc = "for"
    /\ y < header.cupsHeight
    /\ y >= input[page].rows
    /\ pc' = "send_header"
    /\ UNCHANGED <<run, argc, ras, input, page, header, y, width_bytes, line_in,
                   line_out, page_data, out, flushed, log, ferr, faults,
                   envfail, exit_code, prevOut>>

\* y < header.cupsHeight is false: the loop ends
LoopDone ==
    /\ pc = "for"
    /\ y >= header.cupsHeight
    /\ pc' = "send_header"
    /\ UNCHANGED <<run, argc, ras, input, page, header, y, width_bytes, line_in,
                   line_out, page_data, out, flushed, log, ferr, faults,
                   envfail, exit_code, prevOut>>

\* convert_line_to_1bit(line_in, line_out, header.cupsWidth)
Convert ==
    /\ pc = "convert"
    /\ \E g \in HeapBytes :
        line_out' = convert_line_to_1bit(Load(line_in, header.cupsWidth, g),
                                         line_out, header.cupsWidth)
    /\ pc' = "copy"
    /\ UNCHANGED <<run, argc, ras, input, page, header, y, width_bytes, line_in,
                   page_data, out, flushed, log, ferr, faults, envfail,
                   exit_code, prevOut>>

\* memcpy(page_data + (y * width_bytes), line_out, width_bytes); y++
Copy ==
    /\ pc = "copy"
    /\ page_data' = Memcpy(page_data, y * width_bytes, line_out, width_bytes)
    /\ y' = y + 1
    /\ pc' = "for"
    /\ UNCHANGED <<run, argc, ras, input, page, header, width_bytes, line_in,
                   line_out, out, flushed, log, ferr, faults, envfail,
                   exit_code, prevOut>>

\* One frame: its fwrite calls, of which call number f fails (0: none does).
\* The program looks at the result of none of them, so it goes on either way.
Emit(kind, chunks, f, next) ==
    /\ out' = out \o Fwrites(chunks, f)
    /\ ferr' = (ferr \/ f # 0)
    /\ faults' = IF f # 0 THEN faults + 1 ELSE faults
    /\ log' = Append(log, [page |-> page, kind |-> kind, from |-> Len(out),
                           to |-> Len(out'), ok |-> (f = 0)])
    /\ pc' = next
    /\ UNCHANGED <<run, argc, ras, input, page, header, y, width_bytes, line_in,
                   line_out, page_data, flushed, envfail, exit_code, prevOut>>

\* MediaTypeArg without the default.
MediaTypeArgNoDefault(h) == h.cupsMediaType

\* header.cupsMediaType ? header.cupsMediaType : 10
MediaTypeArg(h) == IF h.cupsMediaType # 0 THEN h.cupsMediaType ELSE DefaultMediaType

\* the height main hands to send_raster
RasterHeightArg == header.cupsHeight

InitFrame == send_header(MediaTypeArg(header))

\* send_raster writes width_bytes * height bytes of page_data; g is what its
\* uninitialised bytes hold
RasterFrame(g) ==
    send_raster(Load(page_data, ((header.cupsWidth + 7) \div 8) * RasterHeightArg, g),
                header.cupsWidth, RasterHeightArg)

SendHeader ==
    /\ pc = "send_header"
    /\ Emit("init", InitFrame, 0, "send_raster")

SendRaster ==
    /\ pc = "send_raster"
    /\ \E g \in HeapBytes : Emit("raster", RasterFrame(g), 0, "send_footer")

SendFooter ==
    /\ pc = "send_footer"
    /\ Emit("footer", send_footer, 0, "flush")

\* The same three calls on a stdout one of whose fwrite calls fails.
SendHeaderFails ==
    /\ pc = "send_header"
    /\ faults < MaxFaults
    /\ \E f \in 1..Len(InitFrame) : Emit("init", InitFrame, f, "send_raster")

SendRasterFails ==
    /\ pc = "send_raster"
    /\ faults < MaxFaults
    /\ \E g \in HeapBytes :
        \E f \in 1..Len(RasterFrame(g)) :
            Emit("raster", RasterFrame(g), f, "send_footer")

SendFooterFails ==
    /\ pc = "send_footer"
    /\ faults < MaxFaults
    /\ \E f \in 1..Len(send_footer) : Emit("footer", send_footer, f, "flush")

\* Flush without the fflush.
FlushNothing ==
    /\ pc = "flush"
    /\ pc' = "free"
    /\ UNCHANGED <<run, argc, ras, input, page, header, y, width_bytes, line_in,
                   line_out, page_data, out, flushed, log, ferr, faults, envfail,
                   exit_code, prevOut>>

\* fflush(stdout)
Flush ==
    /\ pc = "flush"
    /\ flushed' = Len(out)
    /\ pc' = "free"
    /\ UNCHANGED <<run, argc, ras, input, page, header, y, width_bytes, line_in,
                   line_out, page_data, out, log, ferr, faults, envfail,
                   exit_code, prevOut>>

\* free the three buffers; line_in = line_out = page_data = NULL
FreeBuffers ==
    /\ pc = "free"
    /\ line_in' = NULL
    /\ line_out' = NULL
    /\ page_data' = NULL
    /\ pc' = "read_header"
    /\ UNCHANGED <<run, argc, ras, input, page, header, y, width_bytes, out,
                   flushed, log, ferr, faults, envfail, exit_code, prevOut>>

\* The filter is run once more on the same arguments and the same stream,
\* after a first run that ended well.
RunAgain ==
    /\ pc = "exit"
    /\ run = 1
    /\ exit_code = 0
    /\ ~ferr
    /\ run' = 2
    /\ prevOut' = out
    /\ pc' = "start"
    /\ ras' = "none"
    /\ page' = 0
    /\ header' = NoHeader
    /\ y' = 0
    /\ width_bytes' = 0
    /\ line_in' = NULL
    /\ line_out' = NULL
    /\ page_data' = NULL
    /\ out' = << >>
    /\ flushed' = 0
    /\ log' = << >>
    /\ exit_code' = -1
    /\ UNCHANGED <<argc, input, ferr, faults, envfail>>

\* One execution of the filter on a stdout that takes every byte.
Next ==
    \/ CheckArgs
    \/ OpenFileFails
    \/ RasterOpenFails
    \/ RasterOpen
    \/ ReadHeader
    \/ EndOfStream
    \/ SkipEmpty
    \/ AllocateBuffers
    \/ AllocateFails
    \/ ReadRow
    \/ ShortRead
    \/ LoopDone
    \/ Convert
    \/ Copy
    \/ SendHeader
    \/ SendRaster
    \/ SendFooter
    \/ Flush
    \/ FreeBuffers

Spec == Init /\ [][Next]_vars

\* The filter on a stdout whose fwrite calls may fail.
NextFaulty ==
    \/ Next
    \/ SendHeaderFails
    \/ SendRasterFails
    \/ SendFooterFails

SpecFaulty == Init /\ [][NextFaulty]_vars

\* The filter run twice on the same stream.
NextTwice ==
    \/ Next
    \/ RunAgain

SpecTwice == Init /\ [][NextTwice]_vars

\* The filter on the streams that hold the over-wide page.
InitOver == InitWith({MaxArgc}, OverInputs)

SpecOver == InitOver /\ [][Next]_vars

(***************************************************************************)
(* convert_line_to_1bit alone: every row of samples at and just below the  *)
(* threshold, every width up to the row's length, and an output row that   *)
(* holds what an earlier row left in it.                                   *)
(***************************************************************************)
ThresholdSamples == {Threshold - 1, Threshold}

RECURSIVE Rows(_)
Rows(n) ==
    IF n = 0 THEN { << >> }
    ELSE Rows(n - 1) \cup
         { Append(r, v) : r \in { q \in Rows(n - 1) : Len(q) = n - 1 },
                          v \in ThresholdSamples }

InitConv ==
    /\ pc = "convert"
    /\ run = 1
    /\ argc = MinArgc
    /\ ras = "open"
    /\ input = << >>
    /\ page = 1
    /\ \E r \in Rows(MaxRowLen) : line_in = Store(Malloc(Len(r)), 0, r)
    /\ \E w \in 0..line_in.size :
        /\ header = Header(w, 1, line_in.size, 0)
        /\ width_bytes = (w + 7) \div 8
        /\ \E g \in HeapBytes :
            line_out = Store(Malloc(width_bytes), 0, [i \in 1..width_bytes |-> g])
    /\ y = 0
    /\ page_data = Malloc(width_bytes)
    /\ out = << >>
    /\ flushed = 0
    /\ log = << >>
    /\ ferr = FALSE
    /\ faults = 0
    /\ envfail = "none"
    /\ exit_code = -1
    /\ prevOut = << >>

SpecConv == InitConv /\ [][Convert]_vars

(***************************************************************************)
(* What the claims speak of                                                *)
(***************************************************************************)
\* ceil(w / 8)
Ceil8(w) == IF w % 8 = 0 THEN w \div 8 ELSE (w \div 8) + 1

\* n as a 16-bit little-endian field
LE16(n) == <<n % 256, (n \div 256) % 256>>

\* the number a 16-bit little-endian field holds
Field16(lo, hi) == lo + 256 * hi

\* bit k of byte b
Bit(b, k) == (b \div (2 ^ k)) % 2

\* The byte at place b (from 0) of the row of w pixels thresholded from the
\* samples of row yy of page n: one bit per pixel, the first pixel highest.
RECURSIVE DarkBits(_, _, _, _, _)
DarkBits(n, yy, w, b, k) ==
    IF k > 7 THEN 0
    ELSE (IF 8 * b + k < w /\ Sample(n, yy, 8 * b + k) < 128 THEN 2 ^ (7 - k) ELSE 0)
         + DarkBits(n, yy, w, b, k + 1)

\* The bitmap of h rows of w pixels of page n, its rows from top to bottom.
Bitmap(n, w, h) ==
    [i \in 1..(Ceil8(w) * h) |->
        DarkBits(n, (i - 1) \div Ceil8(w), w, (i - 1) % Ceil8(w), 0)]

\* The frames of the page being processed: the entries of log for it.
FramesOfPage == SelectSeq(log, LAMBDA e : e.page = page)

\* The bytes of out that frame e put there.
FrameBytes(e) == SubSeq(out, e.from + 1, e.to)

\* The page has been sent whole: all three frames, none with a failed fwrite.
PageSent ==
    /\ pc = "flush"
    /\ Len(FramesOfPage) = 3
    /\ \A i \in 1..3 : FramesOfPage[i].ok

\* The bytes written for the page being processed.
PageBytes == SubSeq(out, FramesOfPage[1].from + 1, Len(out))

\* The bytes of a page as section 4.5 gives them, with mt in the media type slot.
PageAsSpecified(mt, stride, rows, bitmap) ==
    <<27, 78, 13, 5>> \o <<27, 78, 4, 10>> \o <<31, 17, mt>>
    \o <<29, 118, 48, 0>> \o LE16(stride) \o LE16(rows) \o bitmap
    \o <<31, 240, 5, 0, 31, 240, 3, 0>>

\* A page all of whose rows were read has been sent.
WholePageSent ==
    /\ PageSent
    /\ header.cupsWidth > 0
    /\ header.cupsHeight > 0
    /\ y = header.cupsHeight

\* The page's bytes are the specified ones with mt in the media type slot; the
\* bitmap is the assembled page, which is the thresholded rows of the stream
\* whenever a row of the stream holds all the samples of a row of pixels.
PageIs(mt) ==
    /\ PageBytes = PageAsSpecified(mt, Ceil8(header.cupsWidth), header.cupsHeight,
                                   page_data.mem)
    /\ Len(page_data.mem) = Ceil8(header.cupsWidth) * header.cupsHeight
    /\ header.cupsBytesPerLine >= header.cupsWidth
        => page_data.mem = Bitmap(page, header.cupsWidth, header.cupsHeight)

\* C1 as stated: the bytes written for a page all of whose rows were read are
\* the Init frame with header.media_type (0x0A when it is zero) in the media
\* type slot, the Raster frame with stride and rows as 16-bit little-endian
\* fields and the bitmap top to bottom, and the Footer frame; for every value of
\* media_type.
C1_PageBytesAsStated ==
    WholePageSent =>
        PageIs(IF header.cupsMediaType # 0 THEN header.cupsMediaType ELSE 10)

\* C1 as amended: the same, with the low eight bits of header.media_type
\* (media_type mod 256) in the media type slot when media_type is not zero.
C1_PageBytes ==
    WholePageSent =>
        PageIs(IF header.cupsMediaType # 0 THEN header.cupsMediaType % 256 ELSE 10)

C1_Witness ==
    /\ WholePageSent
    /\ header.cupsMediaType = 256
    /\ header.cupsHeight > 1
    /\ header.cupsBytesPerLine >= header.cupsWidth
    /\ page > 1

\* The Raster frame of the page being processed, once it is written.
RasterSent ==
    /\ pc = "send_footer"
    /\ log[Len(log)].kind = "raster"
    /\ log[Len(log)].ok

RasterBytes == FrameBytes(log[Len(log)])

\* C2: the row-count field of the Raster frame is the number of rows read and
\* assembled, y, and the payload holds ceil(width/8) * y bytes, also when row
\* y of the page could not be read.
C2_RowsActuallyRead ==
    RasterSent =>
        /\ SubSeq(RasterBytes, 7, 8) = LE16(y)
        /\ Len(RasterBytes) - 8 = Ceil8(header.cupsWidth) * y

\* C3: for a row r and a width w <= len(r), convert_line_to_1bit leaves an
\* output row of ceil(w/8) bytes in which bit 7 - (x mod 8) of byte x/8 is set
\* exactly when x < w and r[x] < 128, and every other bit is 0.
C3_Thresholder ==
    (pc = "copy" /\ header.cupsWidth <= Len(line_in.mem)) =>
        /\ DOMAIN line_out.mem = 1..Ceil8(header.cupsWidth)
        /\ \A b \in DOMAIN line_out.mem :
            /\ line_out.mem[b] \in 0..255
            /\ \A k \in 0..7 :
                (Bit(line_out.mem[b], 7 - k) = 1) <=>
                    /\ 8 * (b - 1) + k < header.cupsWidth
                    /\ line_in.mem[8 * (b - 1) + k + 1] < 128

C3_Witness ==
    /\ pc = "copy"
    /\ header.cupsWidth = 9
    /\ line_in.size = 9
    /\ line_in.mem[1] = 128
    /\ line_in.mem[2] = 127
    /\ line_in.mem[9] = 127
    /\ line_out.mem = <<64, 128>>

FrameKinds == <<"init", "raster", "footer">>

\* C4: the bytes of out are the frames in the order they were sent, each
\* page's Init, Raster and Footer frame in that order, the pages in the order
\* of the stream; and when the next header is read, every byte is flushed.
C4_Ordered ==
    /\ \A i \in 1..Len(log) :
        /\ log[i].from = (IF i = 1 THEN 0 ELSE log[i - 1].to)
        /\ log[i].from <= log[i].to
        /\ log[i].kind = FrameKinds[((i - 1) % 3) + 1]
        /\ \A j \in (i + 1)..Len(log) :
            IF (i - 1) \div 3 = (j - 1) \div 3
            THEN log[i].page = log[j].page
            ELSE log[i].page < log[j].page
    /\ Len(out) = (IF log = << >> THEN 0 ELSE log[Len(log)].to)
    /\ pc \in {"read_header", "page", "exit"} => flushed = Len(out)
    /\ flushed <= Len(out)

C4_Witness ==
    /\ pc = "read_header"
    /\ Len(log) = 6
    /\ flushed = Len(out)
    /\ log[4].from > 0

\* C5: once an fwrite of a frame has failed the process has ended, and the
\* failed frame is the last one sent.
C5_WriteFailureFatal ==
    ferr =>
        /\ pc = "exit"
        /\ ~log[Len(log)].ok

\* C6: the second run of the filter on the same stream, when it ends well
\* as the first did, has written the same bytes as the first.
C6_SameOutputTwice ==
    (run = 2 /\ pc = "exit" /\ exit_code = 0) => out = prevOut

\* C7: the process exits with 1 exactly when argc is not 6 or 7, the file or
\* the raster stream could not be opened, or a buffer could not be allocated;
\* otherwise with 0 after the last page, and with no byte written when the
\* stream holds no page; a usage error exits before any input or output.
C7_ExitCodes ==
    /\ pc = "exit" <=> exit_code # -1
    /\ pc = "exit" =>
        /\ exit_code \in {0, 1}
        /\ exit_code = 1 <=> (argc \notin {6, 7} \/ envfail \in {"open", "raster", "alloc"})
        /\ argc \notin {6, 7} =>
            /\ ras = "none"
            /\ page = 0
            /\ out = << >>
            /\ envfail = "none"
        /\ exit_code = 0 =>
            /\ page = Len(input)
            /\ ras = "closed"
            /\ (input = << >> => out = << >>)

C7_Witness ==
    /\ pc = "exit"
    /\ exit_code = 1
    /\ envfail = "alloc"
    /\ page = 2
    /\ out # << >>

\* The numbers of the pages of the stream that hold pixels, in order.
PrintedPages == SelectSeq([i \in 1..Len(input) |-> i],
                          LAMBDA i : input[i].hdr.cupsWidth # 0 /\ input[i].hdr.cupsHeight # 0)

\* C8: a page whose width or height is 0 is skipped: the step after its header
\* goes back to reading the next header, writes nothing, allocates no buffer
\* and reads no row; no frame is ever sent for such a page; and a run that
\* ends well has sent the frames of exactly the other pages, in order.
C8_EmptyPageSkipped ==
    [][ /\ (pc = "page" /\ (header.cupsWidth = 0 \/ header.cupsHeight = 0)) =>
            /\ pc' = "read_header"
            /\ out' = out
            /\ log' = log
            /\ line_in' = NULL /\ line_out' = NULL /\ page_data' = NULL
            /\ page' = page /\ y' = y
        /\ \A i \in 1..Len(log') :
            /\ input[log'[i].page].hdr.cupsWidth # 0
            /\ input[log'[i].page].hdr.cupsHeight # 0
        /\ (pc' = "exit" /\ exit_code' = 0) =>
            /\ Len(log') = 3 * Len(PrintedPages)
            /\ \A i \in 1..Len(PrintedPages) : log'[3 * i].page = PrintedPages[i]
      ]_vars

C8_Witness ==
    /\ pc = "exit"
    /\ exit_code = 0
    /\ Len(input) = 2
    /\ input[1].hdr.cupsHeight = 0
    /\ input[1].hdr.cupsWidth # 0
    /\ Len(log) = 3
    /\ log[1].page = 2

\* C9: the two 16-bit fields of a Raster frame hold ceil(width/8) and the
\* number of rows of the payload, so the payload's length is the product of
\* the two fields.
C9_FieldsFit ==
    RasterSent =>
        /\ Field16(RasterBytes[5], RasterBytes[6]) = Ceil8(header.cupsWidth)
        /\ Len(RasterBytes) - 8 =
               Field16(RasterBytes[5], RasterBytes[6]) * Field16(RasterBytes[7], RasterBytes[8])

\* C10: the thresholder reads the input scratch only below its size
\* bytes_per_line and writes the output scratch only below ceil(width/8), and
\* the copy of a row lies inside the page bitmap.
C10_AccessesInBounds ==
    /\ pc = "convert" =>
        /\ header.cupsWidth <= line_in.size
        /\ line_in.size = header.cupsBytesPerLine
        /\ Ceil8(header.cupsWidth) <= line_out.size
    /\ pc = "copy" =>
        /\ (y + 1) * Ceil8(header.cupsWidth) <= page_data.size
        /\ page_data.size = Ceil8(header.cupsWidth) * header.cupsHeight

====
